---- MODULE Spec2Model ----
(***************************************************************************)
(* HarwinLtekFootprint.printPins                                           *)
(* (Connector_Harwin.pretty/Harwin_LTek_Footprint.py).                     *)
(*                                                                         *)
(* Lengths are kept in micrometres (1.35 mm = 1350), so every coordinate   *)
(* the method computes (i * pitch, 2.25, 4.75/2.0) is an exact integer.    *)
(* A Python number that ends up in a pad id is kept as twice its value     *)
(* together with its type, because pins/2 is a true division: it yields a  *)
(* float (4/2 = 2.0, 3/2 = 1.5) and str() renders int and float apart.     *)
(***************************************************************************)
EXTENDS Integers, Sequences, FiniteSets, TLC

(* ---------------- bounds of the exploration ---------------- *)
MaxPins == 5
MaxRows == 3
MaxCalls == 2
Pitches == {1250, 2000}

VARIABLES self, cls, pc, i, myPins, myPadShape, myTH, myLayers, myPinsNum,
          myXCoord, outcomes

vars == <<self, cls, pc, i, myPins, myPadShape, myTH, myLayers, myPinsNum,
          myXCoord, outcomes>>

(* ---------------- class attributes (lines 74-78) ---------------- *)
thPinDim == <<1350, 1350, 800>>
smdPadDim == <<1000, 3200>>
strainPinDim == <<1500, 1500, 950>>

(* ---------------- Python numbers and str() ---------------- *)
PyInt(n) == [twice |-> 2 * n, kind |-> "int"]

PyAdd(a, b) ==
    [twice |-> a.twice + b.twice,
     kind  |-> IF a.kind = "float" \/ b.kind = "float" THEN "float" ELSE "int"]

PyLess(a, b) == a.twice < b.twice

(* str(): "3" for the int 3, "3.0" for the float 3.0, "2.5" for 2.5 *)
str(a) ==
    [form   |-> IF a.kind = "int" THEN "d" ELSE "d.d",
     whole  |-> a.twice \div 2,
     tenths |-> IF a.twice % 2 = 1 THEN 5 ELSE 0]

(* the literal "\"\"" used as the pad id of a strain relief pad *)
Anonymous == [form |-> "quotes", whole |-> 0, tenths |-> 0]

(* a local name that has no binding yet *)
Unbound == <<>>

(* mXCoord, read at lines 151 and 180, is assigned nowhere in printPins   *)
(* and is not a module global (argparse, io, HarwinLtekFootprint, main)   *)
ModuleGlobals == {"argparse", "io", "HarwinLtekFootprint", "main"}
mXCoord == IF "mXCoord" \in ModuleGlobals THEN <<0>> ELSE Unbound

(* ---------------- the pad lines ---------------- *)
(* padString.format(...): one pad record *)
padString(padID, thSMD, padShape, xCoord, yCoord, xSize, ySize, drill, layers) ==
    [padID |-> padID, thSMD |-> thSMD, padShape |-> padShape,
     xCoord |-> xCoord, yCoord |-> yCoord, xSize |-> xSize, ySize |-> ySize,
     drill |-> drill, layers |-> layers]

(* "(drill " + str(d) + ") " *)
Drill(d) == <<d>>

(* variant: the SMD branch given the through-hole layer list *)
SmdLayers_thStack == "*.Cu *.Mask"

SmdLayers == "F.Cu F.Paste F.Mask"
ThLayers == "*.Cu *.Mask"

(* lines 137 and 164: pad i+1 at the origin *)
FirstPad(th, shape, layers) ==
    padString(str(PyInt(i + 1)), th, shape, 0, 0,
              cls.thPinDim[1], cls.thPinDim[2], Drill(cls.thPinDim[3]), layers)

(* variant: the second row's y advancing with the loop index *)
Row2Pad_advancing(pinsNum, th, shape, layers) ==
    padString(str(PyAdd(PyAdd(pinsNum, PyInt(i)), PyInt(1))), th, shape,
              0, (i + 1) * self.pitch,
              cls.thPinDim[1], cls.thPinDim[2], Drill(cls.thPinDim[3]), layers)

(* lines 138, 146, 168 and 175: the second row's pad of column i *)
Row2Pad(pinsNum, th, shape, layers) ==
    padString(str(PyAdd(PyAdd(pinsNum, PyInt(i)), PyInt(1))), th, shape,
              0, self.pitch,
              cls.thPinDim[1], cls.thPinDim[2], Drill(cls.thPinDim[3]), layers)

(* lines 144 and 173: the first row's pad of column i *)
Row1Pad(x, th, shape, layers) ==
    padString(str(PyInt(i + 1)), th, shape, x, 0,
              cls.thPinDim[1], cls.thPinDim[2], Drill(cls.thPinDim[3]), layers)

(* lines 155-158 and 184-187: the four strain relief pads *)
StrainPads(plusX, shape, layers) ==
    LET minusX == -2250
        plusY  == 4750 \div 2
        minusY == -(4750 \div 2)
        P(x, y) == padString(Anonymous, "thru_hole", shape, x, y,
                             cls.strainPinDim[1], cls.strainPinDim[2],
                             Drill(cls.strainPinDim[3]), layers)
    IN  <<P(minusX, plusY), P(minusX, minusY), P(plusX, plusY), P(plusX, minusY)>>

(* variant: the SMD branch rejecting only a single row *)
SmdRowsOk_notOne(rows) == rows # 1

(* line 135: the row count the SMD branch accepts *)
SmdRowsOk(rows) == rows = 2

(* variant: self.pins//2, a floor division *)
HalfPins_floor(pins) == PyInt(pins \div 2)

(* lines 136 and 167: self.pins/2, a true division *)
HalfPins(pins) == [twice |-> pins, kind |-> "float"]

(* ---------------- outcomes seen by the caller ---------------- *)
Returned(pads) == [kind |-> "returned", exc |-> "", pads |-> pads]
Raised(exc) == [kind |-> "raised", exc |-> exc, pads |-> <<>>]

(* ---------------- state after construction (lines 82-107) ---------------- *)
Init ==
    /\ self \in [pins : 1..MaxPins, rows : 1..MaxRows, pitch : Pitches,
                 vert : BOOLEAN, strain : BOOLEAN, smd : BOOLEAN]
    /\ cls = [thPinDim |-> thPinDim, smdPadDim |-> smdPadDim,
              strainPinDim |-> strainPinDim]
    /\ pc = "idle"
    /\ i = 0
    /\ myPins = <<>>
    /\ myPadShape = ""
    /\ myTH = ""
    /\ myLayers = ""
    /\ myPinsNum = PyInt(0)
    /\ myXCoord = Unbound
    /\ outcomes = <<>>

(* ---------------- printPins, statement by statement ---------------- *)
(* variant: myPins kept between calls, as a list bound once would be *)
Call_keepsPins ==
    /\ pc \in {"idle", "done"}
    /\ Len(outcomes) < MaxCalls
    /\ i' = 0
    /\ myPadShape' = "rect"
    /\ myTH' = ""
    /\ myLayers' = ""
    /\ myPinsNum' = PyInt(0)
    /\ myXCoord' = Unbound
    /\ pc' = "branch"
    /\ UNCHANGED <<self, cls, outcomes, myPins>>

(* lines 128-130: a fresh frame *)
Call ==
    /\ pc \in {"idle", "done"}
    /\ Len(outcomes) < MaxCalls
    /\ i' = 0
    /\ myPins' = <<>>
    /\ myPadShape' = "rect"
    /\ myTH' = ""
    /\ myLayers' = ""
    /\ myPinsNum' = PyInt(0)
    /\ myXCoord' = Unbound
    /\ pc' = "branch"
    /\ UNCHANGED <<self, cls, outcomes>>

(* lines 131-140 *)
SmdPrelude ==
    /\ pc = "branch"
    /\ self.smd
    /\ myTH' = "smd"
    /\ myLayers' = SmdLayers
    /\ IF SmdRowsOk(self.rows)
       THEN /\ myPinsNum' = HalfPins(self.pins)
            /\ myPins' = myPins \o <<FirstPad("smd", myPadShape, SmdLayers),
                                     Row2Pad(HalfPins(self.pins), "smd",
                                             myPadShape, SmdLayers)>>
            /\ pc' = "smdWhile"
            /\ UNCHANGED outcomes
       ELSE /\ myPinsNum' = PyInt(self.pins)
            /\ outcomes' = Append(outcomes, Raised("Exception"))
            /\ pc' = "done"
            /\ UNCHANGED myPins
    /\ UNCHANGED <<self, cls, i, myPadShape, myXCoord>>

(* lines 142-147 *)
SmdWhile ==
    /\ pc = "smdWhile"
    /\ IF PyLess(PyInt(i), myPinsNum)
       THEN /\ myXCoord' = <<i * self.pitch>>
            /\ myPins' = myPins
                 \o <<Row1Pad(i * self.pitch, myTH, myPadShape, myLayers)>>
                 \o (IF self.rows = 2
                     THEN <<Row2Pad(myPinsNum, myTH, myPadShape, myLayers)>>
                     ELSE <<>>)
            /\ i' = i + 1
            /\ UNCHANGED pc
       ELSE /\ pc' = "smdStrain"
            /\ UNCHANGED <<myXCoord, myPins, i>>
    /\ UNCHANGED <<self, cls, myPadShape, myTH, myLayers, myPinsNum, outcomes>>

(* lines 149-158 *)
SmdStrain ==
    /\ pc = "smdStrain"
    /\ IF self.strain
       THEN IF mXCoord = Unbound
            THEN /\ outcomes' = Append(outcomes, Raised("NameError"))
                 /\ pc' = "done"
                 /\ UNCHANGED myPins
            ELSE /\ myPins' = myPins
                      \o StrainPads(mXCoord[1] + 2250, myPadShape, myLayers)
                 /\ pc' = "return"
                 /\ UNCHANGED outcomes
       ELSE /\ pc' = "return"
            /\ UNCHANGED <<myPins, outcomes>>
    /\ UNCHANGED <<self, cls, i, myPadShape, myTH, myLayers, myPinsNum, myXCoord>>

(* variant: the second row's first pad left to the loop *)
ThPrelude_noRow2 ==
    /\ pc = "branch"
    /\ ~self.smd
    /\ myTH' = "thru_hole"
    /\ myLayers' = ThLayers
    /\ myPadShape' = "circle"
    /\ myPinsNum' = IF self.rows = 2 THEN HalfPins(self.pins) ELSE PyInt(self.pins)
    /\ myPins' = myPins \o <<FirstPad("thru_hole", myPadShape, ThLayers)>>
    /\ pc' = "thWhile"
    /\ UNCHANGED <<self, cls, i, myXCoord, outcomes>>

(* lines 160-168 *)
ThPrelude ==
    /\ pc = "branch"
    /\ ~self.smd
    /\ myTH' = "thru_hole"
    /\ myLayers' = ThLayers
    /\ myPadShape' = "circle"
    /\ IF self.rows = 2
       THEN /\ myPinsNum' = HalfPins(self.pins)
            /\ myPins' = myPins \o <<FirstPad("thru_hole", myPadShape, ThLayers),
                                     Row2Pad(HalfPins(self.pins), "thru_hole",
                                             "circle", ThLayers)>>
       ELSE /\ myPinsNum' = PyInt(self.pins)
            /\ myPins' = myPins \o <<FirstPad("thru_hole", myPadShape, ThLayers)>>
    /\ pc' = "thWhile"
    /\ UNCHANGED <<self, cls, i, myXCoord, outcomes>>

(* lines 171-176 *)
ThWhile ==
    /\ pc = "thWhile"
    /\ IF PyLess(PyInt(i), myPinsNum)
       THEN /\ myXCoord' = <<i * self.pitch>>
            /\ myPins' = myPins
                 \o <<Row1Pad(i * self.pitch, myTH, myPadShape, myLayers)>>
                 \o (IF self.rows = 2
                     THEN <<Row2Pad(myPinsNum, myTH, myPadShape, myLayers)>>
                     ELSE <<>>)
            /\ i' = i + 1
            /\ UNCHANGED pc
       ELSE /\ pc' = "thStrain"
            /\ UNCHANGED <<myXCoord, myPins, i>>
    /\ UNCHANGED <<self, cls, myPadShape, myTH, myLayers, myPinsNum, outcomes>>

(* lines 178-187 *)
ThStrain ==
    /\ pc = "thStrain"
    /\ IF self.strain
       THEN IF mXCoord = Unbound
            THEN /\ outcomes' = Append(outcomes, Raised("NameError"))
                 /\ pc' = "done"
                 /\ UNCHANGED myPins
            ELSE /\ myPins' = myPins
                      \o StrainPads(mXCoord[1] + 2250, "circle", myLayers)
                 /\ pc' = "return"
                 /\ UNCHANGED outcomes
       ELSE /\ pc' = "return"
            /\ UNCHANGED <<myPins, outcomes>>
    /\ UNCHANGED <<self, cls, i, myPadShape, myTH, myLayers, myPinsNum, myXCoord>>

(* line 191 *)
Return ==
    /\ pc = "return"
    /\ outcomes' = Append(outcomes, Returned(myPins))
    /\ pc' = "done"
    /\ UNCHANGED <<self, cls, i, myPins, myPadShape, myTH, myLayers, myPinsNum,
                   myXCoord>>

Next ==
    \/ Call
    \/ SmdPrelude
    \/ SmdWhile
    \/ SmdStrain
    \/ ThPrelude
    \/ ThWhile
    \/ ThStrain
    \/ Return

Spec == Init /\ [][Next]_vars

(* ======================= properties ======================= *)
Last == outcomes[Len(outcomes)]
HasReturned == pc = "done" /\ Last.kind = "returned"
Pads == Last.pads
IsNumbered(p) == p.padID.form # "quotes"
(* twice the numeric value of a numbered pad's id *)
IdTwice(p) == 2 * p.padID.whole + (IF p.padID.tenths = 5 THEN 1 ELSE 0)
IdIs(p, n) == IsNumbered(p) /\ IdTwice(p) = 2 * n
WithId(n) == {k \in DOMAIN Pads : IdIs(Pads[k], n)}
IsPrefix(s, t) == Len(s) <= Len(t) /\ SubSeq(t, 1, Len(s)) = s

(* C1: every returned pad sequence has exactly one record with id 1, and *)
(* it lies at (0,0).                                                     *)
C1_ExactlyOnePad1 ==
    HasReturned =>
        /\ Cardinality(WithId(1)) = 1
        /\ \A k \in WithId(1) : Pads[k].xCoord = 0 /\ Pads[k].yCoord = 0

(* C2: one row, through-hole, no strain relief, N pins: exactly N        *)
(* numbered pads, ids 1..N, pad k at ((k-1)*pitch, 0), pad 1 a           *)
(* rectangle and pads 2..N circles.                                      *)
C2_SingleRowThroughHole ==
    (HasReturned /\ self.rows = 1 /\ ~self.smd /\ ~self.strain) =>
        /\ Cardinality({k \in DOMAIN Pads : IsNumbered(Pads[k])}) = self.pins
        /\ \A n \in 1..self.pins :
             /\ Cardinality(WithId(n)) = 1
             /\ \A k \in WithId(n) :
                  /\ Pads[k].xCoord = (n - 1) * self.pitch
                  /\ Pads[k].yCoord = 0
                  /\ Pads[k].padShape = IF n = 1 THEN "rect" ELSE "circle"

(* C3: with strain relief (and a row count the mount style accepts) the  *)
(* call completes and the output ends with exactly four anonymous pads,  *)
(* at x in {-2.25, lastRow1X + 2.25} times y in {2.375, -2.375}.         *)
C3_StrainReliefAppended ==
    (pc = "done" /\ self.strain /\ ~(self.smd /\ self.rows # 2)) =>
        /\ Last.kind = "returned"
        /\ Len(Pads) >= 4
        /\ {k \in DOMAIN Pads : ~IsNumbered(Pads[k])} = (Len(Pads) - 3)..Len(Pads)
        /\ {<<Pads[k].xCoord, Pads[k].yCoord>> : k \in (Len(Pads) - 3)..Len(Pads)}
             = {-2250, myXCoord[1] + 2250} \X {2375, -2375}

(* C4: an SMD spec whose row count is not 2 is rejected with the         *)
(* configuration error; no pad is ever appended and nothing is returned. *)
C4_SmdRowsRejected ==
    (self.smd /\ self.rows # 2) =>
        /\ myPins = <<>>
        /\ \A k \in DOMAIN outcomes : outcomes[k] = Raised("Exception")
        /\ pc \in {"idle", "branch", "done"}
        /\ pc = "done" => Len(outcomes) >= 1

C4_Witness ==
    /\ pc = "done" /\ self.smd /\ self.rows = 3 /\ self.strain /\ self.pins = 4
    /\ Last = [kind |-> "raised", exc |-> "Exception", pads |-> <<>>]

C6_RepeatableCalls ==
    /\ [](\A a, b \in DOMAIN outcomes : outcomes[a] = outcomes[b])
    /\ [][self' = self /\ cls' = cls]_vars

C6_Witness ==
    /\ Len(outcomes) = 2 /\ pc = "done"
    /\ outcomes[1].kind = "returned" /\ Len(outcomes[2].pads) = 6

(* C7: in every returned sequence a drill entry is present on exactly    *)
(* the thru_hole records and absent on every numbered pad of an SMD      *)
(* footprint.                                                            *)
C7_DrillOnlyThroughHole ==
    HasReturned =>
        \A k \in DOMAIN Pads :
            (Pads[k].drill # <<>>) <=> (Pads[k].thSMD = "thru_hole")

(* C8: with two rows, the second row's first pad (id pinCount/2 + 1, at  *)
(* (0, pitch)) is in the list before the loop appends anything, and the  *)
(* loop only appends, so it precedes every loop-emitted record.          *)
C8_SecondRowFirstBeforeLoop ==
    /\ []((self.rows = 2 /\ pc \in {"smdWhile", "thWhile", "smdStrain",
                                     "thStrain", "return"}) =>
            /\ Len(myPins) >= 2
            /\ IsNumbered(myPins[2])
            /\ IdTwice(myPins[2]) = self.pins + 2
            /\ myPins[2].xCoord = 0 /\ myPins[2].yCoord = self.pitch
            /\ (pc \in {"smdWhile", "thWhile"} /\ i = 0) => Len(myPins) = 2)
    /\ []((HasReturned /\ self.rows = 2) =>
            /\ IdTwice(Pads[2]) = self.pins + 2
            /\ Pads[2].xCoord = 0 /\ Pads[2].yCoord = self.pitch)
    /\ [][(pc \in {"smdWhile", "thWhile", "smdStrain", "thStrain", "return"})
            => IsPrefix(myPins, myPins')]_vars

C8_Witness ==
    /\ HasReturned /\ self.rows = 2 /\ ~self.smd /\ self.pins = 2
    /\ Len(Pads) = 4 /\ IdTwice(Pads[2]) = 4 /\ IdTwice(Pads[3]) = 2

C10_OddPinsTwoRows ==
    (pc = "done" /\ self.rows = 2 /\ ~self.smd /\ ~self.strain
       /\ self.pins % 2 = 1) =>
        /\ Last.kind = "returned"
        /\ i = (self.pins + 1) \div 2
        /\ {IdTwice(Pads[k]) : k \in {m \in DOMAIN Pads : Pads[m].yCoord = 0}}
             = {2 * n : n \in 1..((self.pins + 1) \div 2)}
        /\ {IdTwice(Pads[k]) : k \in {m \in DOMAIN Pads : Pads[m].yCoord # 0}}
             = {self.pins + 2 * j + 2 : j \in 0..(((self.pins + 1) \div 2) - 1)}
        /\ \A k \in DOMAIN Pads :
             Pads[k].yCoord # 0 =>
                 Pads[k].padID.tenths = 5 /\ Pads[k].yCoord = self.pitch

C10_Witness ==
    /\ HasReturned /\ self.rows = 2 /\ ~self.smd /\ self.pins = 3 /\ i = 2
    /\ \E k \in DOMAIN Pads : Pads[k].padID = [form |-> "d.d", whole |-> 3, tenths |-> 5]

====
